---- MODULE Spec2Model ----
(***************************************************************************)
(* Model of the tool-augmented answer generation loop of the course        *)
(* chatbot: AIGenerator.generate_response and its helpers                  *)
(* (backend/ai_generator.py).                                              *)
(*                                                                         *)
(* One query is one behaviour.  The LLM service and the tool manager are   *)
(* the environment: every response (stop reason and content blocks) and    *)
(* every tool outcome (a returned string or a raised exception) is chosen  *)
(* nondeterministically from bounded sets.  The blocking calls             *)
(* client.messages.create and tool_manager.execute_tool are the points at  *)
(* which the behaviour is cut into steps.                                  *)
(***************************************************************************)
EXTENDS Integers, Sequences, FiniteSets, TLC

VARIABLES
    pc,                   \* position of generate_response
    conversation_history, \* argument (optional string)
    tools,                \* argument (optional list of tool schemas)
    tool_manager,         \* argument (optional manager object)
    system_content,       \* local of generate_response
    messages,             \* local of generate_response
    round_count,          \* local of generate_response
    response,             \* the last response received from the LLM service
    block_idx,            \* _execute_tools: position of the for loop
    tool_results,         \* _execute_tools: local
    has_critical_error,   \* _execute_tools: local
    requests,             \* every request sent to client.messages.create
    responses,            \* every response received, in order
    executions,           \* every call of tool_manager.execute_tool
    tool_rounds,          \* number of calls of _execute_tools
    result,               \* the value returned to the caller (optional)
    store,                \* the VectorStore under test (optional)
    searches,             \* every call of store.search
    results,              \* the SearchResults of the last search (optional)
    last_sources,         \* CourseOutlineTool.last_sources
    manager_tools,        \* ToolManager.tools: the registered tool names
    outcome,              \* the last call of the store, tool or manager
    http_request,         \* the request an endpoint is handling (optional)
    session_id,           \* query_documents: local (optional string)
    rag_calls,            \* the calls the handler made to mock_rag_system
    http_response         \* the response of the endpoint (optional)

vars == <<pc, conversation_history, tools, tool_manager, system_content,
          messages, round_count, response, block_idx, tool_results,
          has_critical_error, requests, responses, executions, tool_rounds,
          result, store, searches, results, last_sources, manager_tools,
          outcome, http_request, session_id, rag_calls, http_response>>

(***************************************************************************)
(* Bounds of the environment.                                              *)
(***************************************************************************)
\* largest number of content blocks in one LLM response
MaxBlocks == 2

\* largest number of content blocks of a response handed directly to
\* _extract_text_response
MaxExtractBlocks == 3

\* largest number of content chunks added to a store
MaxChunks == 2

\* largest number of searches issued against a store
MaxSearches == 2

\* largest number of lessons of a course
MaxLessons == 2

(***************************************************************************)
(* Python values.                                                          *)
(***************************************************************************)
\* Optional values: None is the empty tuple, a present value v is <<v>>.
None == <<>>
Some(v) == <<v>>

\* a variant that only tests for None
TruthyStr_not_none(o) == o # None

\* Python truthiness of an optional string: None and "" are falsy
TruthyStr(o) == o # None /\ o[1] # ""

\* a variant that only tests for None
TruthyList_not_none(o) == o # None

\* Python truthiness of an optional list: None and [] are falsy
TruthyList(o) == o # None /\ o[1] # <<>>

\* the empty dict
EmptyDict == [k \in {} |-> TRUE]

\* no call of the store, the outline tool or the tool manager yet
NoCall == [op |-> "none"]

\* the user's question
query == "Original query"

\* class constants and the parameters pre-built by __init__
MAX_TOOL_ROUNDS == 2
SYSTEM_PROMPT == "SYSTEM_PROMPT"
base_params == [model |-> "model", temperature |-> 0, max_tokens |-> 800]

(***************************************************************************)
(* The environment's vocabulary.                                           *)
(***************************************************************************)
\* stop reasons of the LLM service; "stop_sequence" stands for every reason
\* the code does not name
StopReasons == {"end_turn", "max_tokens", "tool_use", "stop_sequence"}

\* the kinds of content block the service emits
BlockTypes == {"text", "tool_use"}

\* the i-th content block of a response, of the given type; tool-call ids
\* are unique within a response
Block(type, i) ==
    IF type = "text"
    THEN [type |-> "text", text |-> "t" \o ToString(i)]
    ELSE [type |-> "tool_use", id |-> "tool-" \o ToString(i),
          name |-> "search_course_content", input |-> [query |-> "test"]]

Contents ==
    UNION {{[i \in 1..n |-> Block(ts[i], i)] : ts \in [1..n -> BlockTypes]}
           : n \in 0..MaxBlocks}

Responses == [stop_reason : StopReasons, content : Contents]

\* before the first call there is no response
NoResponse == [stop_reason |-> "none", content |-> <<>>]

\* strings execute_tool returns without raising.  The generator never looks
\* into the string, so the registry's "unknown tool" text stands for every
\* returned text (passages, a tool's "no results" message)
ToolStrings == {"Tool 'search_course_content' not found"}

\* messages of the exceptions execute_tool raises
ToolExceptions == {"Tool failed"}

\* the arguments of generate_response
HistoryArgs == {None, Some(""), Some("User: hi\nAssistant: hello")}
ToolsArgs == {None, Some(<<>>), Some(<<[name |-> "search_course_content"]>>)}
ManagerArgs == {None, Some("tool_manager")}

(***************************************************************************)
(* _extract_text_response                                                  *)
(***************************************************************************)
\* text_parts: the text of every block that has a text attribute, in order
RECURSIVE text_parts(_)
text_parts(content) ==
    IF content = <<>> THEN <<>>
    ELSE (IF "text" \in DOMAIN Head(content)
          THEN <<Head(content).text>> ELSE <<>>)
         \o text_parts(Tail(content))

\* a variant that joins with a space
RECURSIVE join_with_space(_)
join_with_space(parts) ==
    IF parts = <<>> THEN ""
    ELSE IF Len(parts) = 1 THEN parts[1]
    ELSE parts[1] \o " " \o join_with_space(Tail(parts))

\* "\n".join(parts)
RECURSIVE join(_)
join(parts) ==
    IF parts = <<>> THEN ""
    ELSE IF Len(parts) = 1 THEN parts[1]
    ELSE parts[1] \o "\n" \o join(Tail(parts))

_extract_text_response(resp) ==
    IF text_parts(resp.content) # <<>> THEN join(text_parts(resp.content))
    ELSE ""

(***************************************************************************)
(* Decisions of generate_response and _execute_tools                       *)
(***************************************************************************)
\* a variant that is off by one
rounds_remain_inclusive(count) == count <= MAX_TOOL_ROUNDS

\* the loop condition (line 85)
rounds_remain(count) == count < MAX_TOOL_ROUNDS

\* a variant that looks for tool-call blocks instead of the stop reason
dispatch_by_content(resp, manager) ==
    IF /\ \E i \in 1..Len(resp.content) : resp.content[i].type = "tool_use"
       /\ manager # None
    THEN "tools"
    ELSE IF resp.stop_reason \in {"end_turn", "max_tokens"} THEN "completion"
    ELSE "unexpected"

\* a variant that executes tools only when a tool list was passed
dispatch_if_tools(resp, manager) ==
    IF resp.stop_reason \in {"end_turn", "max_tokens"} THEN "completion"
    ELSE IF /\ resp.stop_reason = "tool_use"
            /\ manager # None
            /\ TruthyList(tools)
    THEN "tools"
    ELSE "unexpected"

\* the branch taken on an in-loop response (lines 100-123)
dispatch(resp, manager) ==
    IF resp.stop_reason \in {"end_turn", "max_tokens"} THEN "completion"
    ELSE IF resp.stop_reason = "tool_use" /\ manager # None THEN "tools"
    ELSE "unexpected"

\* a variant that forgets to set the flag
critical_never(flag, raised) == flag

\* a variant that flags every tool call
critical_always(flag, raised) == TRUE

\* a variant in which the last tool call decides
critical_last(flag, raised) == raised

\* has_critical_error after a tool call (lines 141, 145-165): set by a raised
\* exception, never cleared
critical_after(flag, raised) == IF raised THEN TRUE ELSE flag

(***************************************************************************)
(* Requests                                                                *)
(***************************************************************************)
\* the parameters of an in-loop call (lines 87-95)
api_params ==
    base_params @@ [messages |-> messages, system |-> system_content]
    @@ (IF TruthyList(tools)
        THEN [tools |-> tools[1], tool_choice |-> [type |-> "auto"]]
        ELSE EmptyDict)

\* a variant that leaves the system instruction out
final_params_bare(msgs) ==
    base_params @@ [messages |-> msgs]

\* the parameters of the final call (lines 202-206)
final_params(msgs) ==
    base_params @@ [messages |-> msgs, system |-> system_content]

(***************************************************************************)
(* Initial state: generate_response has built system_content and the       *)
(* message list and is about to test the loop condition.                   *)
(***************************************************************************)
Init ==
    /\ conversation_history \in HistoryArgs
    /\ tools \in ToolsArgs
    /\ tool_manager \in ManagerArgs
    /\ system_content =
         IF TruthyStr(conversation_history)
         THEN SYSTEM_PROMPT \o "\n\nPrevious conversation:\n"
                            \o conversation_history[1]
         ELSE SYSTEM_PROMPT
    /\ messages = <<[role |-> "user", content |-> query]>>
    /\ round_count = 0
    /\ response = NoResponse
    /\ block_idx = 0
    /\ tool_results = <<>>
    /\ has_critical_error = FALSE
    /\ requests = <<>>
    /\ responses = <<>>
    /\ executions = <<>>
    /\ tool_rounds = 0
    /\ result = None
    /\ store = None
    /\ searches = <<>>
    /\ results = None
    /\ last_sources = <<>>
    /\ manager_tools = <<>>
    /\ outcome = NoCall
    /\ http_request = None
    /\ session_id = None
    /\ rag_calls = <<>>
    /\ http_response = None
    /\ pc = "loop"

\* the arguments and system_content never change
args == <<conversation_history, tools, tool_manager, system_content>>

\* the locals of _execute_tools
exec_locals == <<block_idx, tool_results, has_critical_error>>

\* the vector store, its searches, the outline tool and the tool manager:
\* generate_response never touches them
store_vars ==
    <<store, searches, results, last_sources, manager_tools, outcome>>

\* the endpoints of the test application
api_vars == <<http_request, session_id, rag_calls, http_response>>

(***************************************************************************)
(* generate_response                                                       *)
(***************************************************************************)
\* _final_call_without_tools up to the blocking call (lines 202-208)
SendFinal(msgs) ==
    /\ requests' = Append(requests, [via |-> "_final_call_without_tools",
                                     params |-> final_params(msgs)])
    /\ pc' = "final_call"

\* lines 85-98: the loop condition holds; build the parameters and call
LoopCall ==
    /\ pc = "loop"
    /\ rounds_remain(round_count)
    /\ requests' = Append(requests, [via |-> "generate_response",
                                     params |-> api_params])
    /\ pc' = "api_call"
    /\ UNCHANGED <<args, store_vars, api_vars, exec_locals, messages, round_count, response,
                   responses, executions, tool_rounds, result>>

\* lines 85, 125-127: the loop is exhausted; make the final call
LoopExhausted ==
    /\ pc = "loop"
    /\ ~rounds_remain(round_count)
    /\ SendFinal(messages)
    /\ UNCHANGED <<args, store_vars, api_vars, exec_locals, messages, round_count, response,
                   responses, executions, tool_rounds, result>>

\* line 98: the service answers the in-loop call
ApiRespond ==
    /\ pc = "api_call"
    /\ \E r \in Responses :
          /\ response' = r
          /\ responses' = Append(responses, r)
    /\ pc' = "dispatch"
    /\ UNCHANGED <<args, store_vars, api_vars, exec_locals, messages, round_count, requests,
                   executions, tool_rounds, result>>

\* line 98: the in-loop call raises; nothing catches it
ApiRaise ==
    /\ pc = "api_call"
    /\ pc' = "raised"
    /\ UNCHANGED <<args, store_vars, api_vars, exec_locals, messages, round_count, response,
                   requests, responses, executions, tool_rounds, result>>

\* lines 101-103: completion
ReturnCompletion ==
    /\ pc = "dispatch"
    /\ dispatch(response, tool_manager) = "completion"
    /\ result' = Some(_extract_text_response(response))
    /\ pc' = "done"
    /\ UNCHANGED <<args, store_vars, api_vars, exec_locals, messages, round_count, response,
                   requests, responses, executions, tool_rounds>>

\* lines 105-107 and 140-141: enter _execute_tools
StartTools ==
    /\ pc = "dispatch"
    /\ dispatch(response, tool_manager) = "tools"
    /\ tool_rounds' = tool_rounds + 1
    /\ tool_results' = <<>>
    /\ has_critical_error' = FALSE
    /\ block_idx' = 1
    /\ pc' = "execute_tools"
    /\ UNCHANGED <<args, store_vars, api_vars, messages, round_count, response, requests,
                   responses, executions, result>>

\* lines 122-123: any other stop reason
ReturnUnexpected ==
    /\ pc = "dispatch"
    /\ dispatch(response, tool_manager) = "unexpected"
    /\ result' = Some(_extract_text_response(response))
    /\ pc' = "done"
    /\ UNCHANGED <<args, store_vars, api_vars, exec_locals, messages, round_count, response,
                   requests, responses, executions, tool_rounds>>

(***************************************************************************)
(* _execute_tools: one step per content block                              *)
(***************************************************************************)
\* the record of one call of tool_manager.execute_tool (lines 146-149)
execution(content_block, raised) ==
    [name |-> content_block.name, input |-> content_block.input,
     id |-> content_block.id, after |-> Len(requests), raised |-> raised]

\* a variant that labels the result with the tool's name
success_result_by_name(content_block, s) ==
    [type |-> "tool_result",
     tool_use_id |-> content_block.name,
     content |-> s]

\* the result recorded for a call that returned s (lines 151-155)
success_result(content_block, s) ==
    [type |-> "tool_result",
     tool_use_id |-> content_block.id,
     content |-> s]

\* the result recorded for a call that raised e (lines 159-164)
error_result(content_block, e) ==
    [type |-> "tool_result",
     tool_use_id |-> content_block.id,
     content |-> "Tool execution error: " \o e,
     is_error |-> TRUE]

\* lines 143-144: a block that is not a tool call is skipped
SkipBlock ==
    /\ pc = "execute_tools"
    /\ block_idx <= Len(response.content)
    /\ response.content[block_idx].type # "tool_use"
    /\ block_idx' = block_idx + 1
    /\ UNCHANGED <<args, store_vars, api_vars, pc, messages, round_count, response, tool_results,
                   has_critical_error, requests, responses, executions,
                   tool_rounds, result>>

\* lines 145-155: execute_tool returns a string
ToolReturns ==
    /\ pc = "execute_tools"
    /\ block_idx <= Len(response.content)
    /\ LET content_block == response.content[block_idx] IN
       /\ content_block.type = "tool_use"
       /\ executions' = Append(executions, execution(content_block, FALSE))
       /\ \E s \in ToolStrings :
              tool_results' =
                  Append(tool_results, success_result(content_block, s))
    /\ has_critical_error' = critical_after(has_critical_error, FALSE)
    /\ block_idx' = block_idx + 1
    /\ UNCHANGED <<args, store_vars, api_vars, pc, messages, round_count, response, requests,
                   responses, tool_rounds, result>>

\* lines 145-149 and 157-165: execute_tool raises
ToolRaises ==
    /\ pc = "execute_tools"
    /\ block_idx <= Len(response.content)
    /\ LET content_block == response.content[block_idx] IN
       /\ content_block.type = "tool_use"
       /\ executions' = Append(executions, execution(content_block, TRUE))
       /\ \E e \in ToolExceptions :
              tool_results' =
                  Append(tool_results, error_result(content_block, e))
    /\ has_critical_error' = critical_after(has_critical_error, TRUE)
    /\ block_idx' = block_idx + 1
    /\ UNCHANGED <<args, store_vars, api_vars, pc, messages, round_count, response, requests,
                   responses, tool_rounds, result>>

\* a variant that forgets the assistant turn
round_messages_results_only ==
    messages \o <<[role |-> "user", content |-> tool_results]>>

\* the history after a tool round (lines 110 and 113)
round_messages ==
    messages \o <<[role |-> "assistant", content |-> response.content],
                  [role |-> "user", content |-> tool_results]>>

\* a variant that leaves the for loop at the first error
ToolsFailed_early ==
    /\ pc = "execute_tools"
    /\ has_critical_error
    /\ messages' = round_messages
    /\ SendFinal(round_messages)
    /\ UNCHANGED <<args, store_vars, api_vars, exec_locals, round_count, response, responses,
                   executions, tool_rounds, result>>

\* a variant that makes the final call on the history before the round
ToolsFailed_unappended ==
    /\ pc = "execute_tools"
    /\ block_idx > Len(response.content)
    /\ has_critical_error
    /\ messages' = round_messages
    /\ SendFinal(messages)
    /\ UNCHANGED <<args, store_vars, api_vars, exec_locals, round_count, response, responses,
                   executions, tool_rounds, result>>

\* lines 167, 107-117: _execute_tools returns with an error; the history is
\* extended and the final call is made
ToolsFailed ==
    /\ pc = "execute_tools"
    /\ block_idx > Len(response.content)
    /\ has_critical_error
    /\ messages' = round_messages
    /\ SendFinal(round_messages)
    /\ UNCHANGED <<args, store_vars, api_vars, exec_locals, round_count, response, responses,
                   executions, tool_rounds, result>>

\* lines 167, 107-120: _execute_tools returns without error; the history is
\* extended and the next round starts
ToolsDone ==
    /\ pc = "execute_tools"
    /\ block_idx > Len(response.content)
    /\ ~has_critical_error
    /\ messages' = round_messages
    /\ round_count' = round_count + 1
    /\ pc' = "loop"
    /\ UNCHANGED <<args, store_vars, api_vars, exec_locals, response, requests, responses,
                   executions, tool_rounds, result>>

(***************************************************************************)
(* _final_call_without_tools after the blocking call                       *)
(***************************************************************************)
\* a variant that extracts the text of the response held before the call
FinalRespond_stale ==
    /\ pc = "final_call"
    /\ \E r \in Responses :
          /\ response' = r
          /\ responses' = Append(responses, r)
          /\ result' = Some(_extract_text_response(response))
    /\ pc' = "done"
    /\ UNCHANGED <<args, store_vars, api_vars, exec_locals, messages, round_count, requests,
                   executions, tool_rounds>>

\* a variant that treats the final response like an in-loop response
FinalRespond_dispatch ==
    /\ pc = "final_call"
    /\ \E r \in Responses :
          /\ response' = r
          /\ responses' = Append(responses, r)
    /\ pc' = "dispatch"
    /\ UNCHANGED <<args, store_vars, api_vars, exec_locals, messages, round_count, requests,
                   executions, tool_rounds, result>>

\* lines 208-209: the service answers the final call; its text is returned
FinalRespond ==
    /\ pc = "final_call"
    /\ \E r \in Responses :
          /\ response' = r
          /\ responses' = Append(responses, r)
          /\ result' = Some(_extract_text_response(r))
    /\ pc' = "done"
    /\ UNCHANGED <<args, store_vars, api_vars, exec_locals, messages, round_count, requests,
                   executions, tool_rounds>>

\* line 208: the final call raises; nothing catches it
FinalRaise ==
    /\ pc = "final_call"
    /\ pc' = "raised"
    /\ UNCHANGED <<args, store_vars, api_vars, exec_locals, messages, round_count, response,
                   requests, responses, executions, tool_rounds, result>>

Next ==
    \/ LoopCall
    \/ LoopExhausted
    \/ ApiRespond
    \/ ApiRaise
    \/ ReturnCompletion
    \/ StartTools
    \/ ReturnUnexpected
    \/ SkipBlock
    \/ ToolReturns
    \/ ToolRaises
    \/ ToolsFailed
    \/ ToolsDone
    \/ FinalRespond
    \/ FinalRaise

Spec == Init /\ [][Next]_vars

\* generate_response is sequential code whose calls block until the service
\* or the tool answers or raises: every enabled step is eventually taken
FairSpec == Spec /\ WF_vars(Next)

\* the queries whose tool rounds are looked at on their own: no prior
\* history, the search tool offered, with and without a tool manager
InitRounds ==
    /\ Init
    /\ conversation_history = None
    /\ tools = Some(<<[name |-> "search_course_content"]>>)

RoundSpec == InitRounds /\ [][Next]_vars

(***************************************************************************)
(* _extract_text_response on its own, as the unit test calls it: the       *)
(* response is any sequence of text blocks (one of them empty) and         *)
(* tool-call blocks.                                                       *)
(***************************************************************************)
ExtractBlocks ==
    {[type |-> "text", text |-> "Some text"],
     [type |-> "text", text |-> "More text"],
     [type |-> "text", text |-> ""],
     [type |-> "tool_use", id |-> "tool-1", name |-> "test",
      input |-> EmptyDict]}

ExtractContents ==
    UNION {[1..n -> ExtractBlocks] : n \in 0..MaxExtractBlocks}

InitExtract ==
    /\ conversation_history = None
    /\ tools = None
    /\ tool_manager = None
    /\ system_content = SYSTEM_PROMPT
    /\ messages = <<>>
    /\ round_count = 0
    /\ response \in [stop_reason : {"end_turn"}, content : ExtractContents]
    /\ block_idx = 0
    /\ tool_results = <<>>
    /\ has_critical_error = FALSE
    /\ requests = <<>>
    /\ responses = <<>>
    /\ executions = <<>>
    /\ tool_rounds = 0
    /\ result = None
    /\ store = None
    /\ searches = <<>>
    /\ results = None
    /\ last_sources = <<>>
    /\ manager_tools = <<>>
    /\ outcome = NoCall
    /\ http_request = None
    /\ session_id = None
    /\ rag_calls = <<>>
    /\ http_response = None
    /\ pc = "extract"

\* lines 182-187: the call of _extract_text_response
ExtractText ==
    /\ pc = "extract"
    /\ result' = Some(_extract_text_response(response))
    /\ pc' = "extracted"
    /\ UNCHANGED <<args, store_vars, api_vars, exec_locals, messages, round_count, response,
                   requests, responses, executions, tool_rounds>>

NextExtract == ExtractText

ExtractSpec == InitExtract /\ [][NextExtract]_vars

(***************************************************************************)
(* The vector store, as the tests construct, populate and search it.       *)
(***************************************************************************)
\* max_results of the constructor calls: 0 and 5 in the tests, 1 to see a
\* search cut off
MaxResultsArgs == {0, 1, 5}

\* the course and the chunks of the fixture vector_store_with_test_data
TestCourseTitle == "Introduction to Machine Learning"

\* Lesson(lesson_number=i, title=..., lesson_link=...)
Lesson(i) ==
    [lesson_number |-> i,
     title |-> "Lesson " \o ToString(i),
     lesson_link |-> "https://example.com/lesson" \o ToString(i)]

\* Course(title=..., course_link=..., instructor=..., lessons=[...]) whose
\* lessons are given as the sequence of their numbers
Course(title, numbers) ==
    [title |-> title,
     course_link |-> "https://example.com/course",
     instructor |-> "Test Instructor",
     lessons |-> [i \in 1..Len(numbers) |-> Lesson(numbers[i])]]

TestCourse == Course(TestCourseTitle, <<0, 1, 2>>)

CourseChunk(i) ==
    [content |-> CASE i = 1 -> "Machine learning is a subset of artificial intelligence."
                   [] i = 2 -> "Linear regression predicts continuous values using a linear equation."
                   [] i = 3 -> "Neural networks are inspired by biological neural networks."
                   [] OTHER -> "chunk " \o ToString(i),
     course_title |-> TestCourseTitle,
     lesson_number |-> i - 1,
     chunk_index |-> 0]

\* the arguments of store.search: the query, and the optional course name
Queries == {"test query"}
CourseArgs == {None, Some("Intro")}

\* VectorStore(chroma_path, embedding_model, max_results): the call returns
\* a store whatever max_results is
VectorStore(max_results) ==
    [max_results |-> max_results, catalog |-> <<>>, content |-> <<>>]

SearchResults(documents, error) == [documents |-> documents, error |-> error]

\* the error of the index query: with n_results = 0 the index raises, and
\* the result of search carries an error or none; with a positive
\* n_results there is none
query_error_unpopulated(s) ==
    IF s.max_results <= 0
    THEN {Some("Search error: n_results must be positive"), None}
    ELSE IF s.content = <<>>
    THEN {Some("Search error: collection is empty")}
    ELSE {None}

query_error(s) ==
    IF s.max_results <= 0
    THEN {Some("Search error: n_results must be positive"), None}
    ELSE {None}

\* the titles of the catalog
titles(s) == {s.catalog[i].title : i \in 1..Len(s.catalog)}

\* course name resolution, the titles it may return: none on an empty
\* catalog, otherwise the stored title nearest to the name, whichever the
\* embedding makes it; the spec says nothing of the empty name
resolve_course_name(s, course_name) ==
    IF s.catalog = <<>> THEN {None}
    ELSE IF course_name = "" THEN {None} \cup {Some(t) : t \in titles(s)}
    ELSE {Some(t) : t \in titles(s)}

\* the documents of a search without error: at most max_results of the
\* chunks that pass the course filter (the ranking by similarity is left
\* out: the chunks come in stored order)
documents(s, course_title) ==
    LET passing == IF course_title = None THEN s.content
                   ELSE SelectSeq(s.content,
                            LAMBDA c : c.course_title = course_title[1])
        n == IF s.max_results < Len(passing) THEN s.max_results
             ELSE Len(passing)
    IN  SubSeq(passing, 1, n)

\* store.search(query, course_name): the SearchResults it may return
search(s, q, course_name) ==
    LET course_titles ==
            IF course_name = None THEN {None}
            ELSE resolve_course_name(s, course_name[1])
    IN  UNION {
          IF course_name # None /\ course_title = None
          THEN {SearchResults(<<>>, Some("No course found matching '"
                                           \o course_name[1] \o "'"))}
          ELSE {SearchResults(IF e = None THEN documents(s, course_title)
                              ELSE <<>>, e) : e \in query_error(s)}
          : course_title \in course_titles}

InitStore ==
    /\ conversation_history = None
    /\ tools = None
    /\ tool_manager = None
    /\ system_content = SYSTEM_PROMPT
    /\ messages = <<>>
    /\ round_count = 0
    /\ response = NoResponse
    /\ block_idx = 0
    /\ tool_results = <<>>
    /\ has_critical_error = FALSE
    /\ requests = <<>>
    /\ responses = <<>>
    /\ executions = <<>>
    /\ tool_rounds = 0
    /\ result = None
    /\ store = None
    /\ searches = <<>>
    /\ results = None
    /\ last_sources = <<>>
    /\ manager_tools = <<>>
    /\ outcome = NoCall
    /\ http_request = None
    /\ session_id = None
    /\ rag_calls = <<>>
    /\ http_response = None
    /\ pc = "store_new"

\* everything of generate_response
generator_vars ==
    <<args, exec_locals, messages, round_count, response, requests,
      responses, executions, tool_rounds, result>>

\* the tool and the manager are not part of the search tests
tool_vars == <<last_sources, manager_tools, outcome>>

\* store = VectorStore(..., max_results=m)
Construct ==
    /\ pc = "store_new"
    /\ \E m \in MaxResultsArgs : store' = Some(VectorStore(m))
    /\ pc' = "store_ready"
    /\ UNCHANGED <<generator_vars, api_vars, searches, results, tool_vars>>

\* store.add_course_metadata(course) for one of the given courses, each
\* title once
add_course_metadata(courses) ==
    /\ \E course \in courses :
          /\ course.title \notin titles(store[1])
          /\ store' = Some([store[1] EXCEPT !.catalog = Append(@, course)])
    /\ UNCHANGED <<generator_vars, api_vars, pc, searches, results, tool_vars>>

\* store.add_course_metadata(test_course)
AddCourseMetadata ==
    /\ pc = "store_ready"
    /\ add_course_metadata({TestCourse})

\* store.add_course_content(test_chunks)
AddCourseContent ==
    /\ pc = "store_ready"
    /\ store[1].catalog # <<>>
    /\ store[1].content = <<>>
    /\ \E n \in 1..MaxChunks :
          store' = Some([store[1] EXCEPT
                            !.content = [i \in 1..n |-> CourseChunk(i)]])
    /\ UNCHANGED <<generator_vars, api_vars, pc, searches, results, tool_vars>>

\* results = store.search(query=q, course_name=c)
Search ==
    /\ pc = "store_ready"
    /\ Len(searches) < MaxSearches
    /\ \E q \in Queries, c \in CourseArgs :
          /\ searches' = Append(searches,
                                [query |-> q, course_name |-> c,
                                 n_results |-> store[1].max_results])
          /\ \E r \in search(store[1], q, c) : results' = Some(r)
    /\ UNCHANGED <<generator_vars, api_vars, pc, store, tool_vars>>

NextStore ==
    \/ Construct
    \/ AddCourseMetadata
    \/ AddCourseContent
    \/ Search

StoreSpec == InitStore /\ [][NextStore]_vars

(***************************************************************************)
(* The outline lookups of the store, the Outline Tool and the Tool         *)
(* Manager, as the tests use them.                                         *)
(***************************************************************************)
\* config.MAX_RESULTS of the test configuration
MAX_RESULTS == 5

\* the titles of the courses added, and the course names looked up
CourseTitles == {"Test Course", "Integration Test Course"}
CourseNames == {"", "Test", "Any Course Name"}

\* the tool names handed to the manager
ToolNames == {"get_course_outline", "search_course_content"}

\* the orders in which the lessons 0..n-1 of a course may be supplied
LessonOrders ==
    UNION {{f \in [1..n -> 0..(n - 1)] :
                \A i, j \in 1..n : f[i] = f[j] => i = j}
           : n \in 0..MaxLessons}

OutlineCourses == {Course(t, o) : t \in CourseTitles, o \in LessonOrders}

\* a variant that returns the lessons as they were supplied
lessons_as_stored(lessons) == lessons

\* the lessons by increasing lesson_number
RECURSIVE lessons_in_order(_)
lessons_in_order(lessons) ==
    IF lessons = <<>> THEN <<>>
    ELSE LET m == CHOOSE i \in 1..Len(lessons) :
                      \A j \in 1..Len(lessons) :
                          lessons[i].lesson_number <= lessons[j].lesson_number
             rest == [k \in 1..(Len(lessons) - 1) |->
                          IF k < m THEN lessons[k] ELSE lessons[k + 1]]
         IN  <<lessons[m]>> \o lessons_in_order(rest)

\* the stored course of a title
course_of(s, title) ==
    s.catalog[CHOOSE i \in 1..Len(s.catalog) : s.catalog[i].title = title]

\* the outline dict of a stored course
outline_of(course) ==
    LET lessons == lessons_in_order(course.lessons) IN
    [title |-> course.title,
     course_link |-> course.course_link,
     instructor |-> course.instructor,
     lessons |-> [i \in 1..Len(lessons) |->
                     [lesson_number |-> lessons[i].lesson_number,
                      lesson_title |-> lessons[i].title,
                      lesson_link |-> lessons[i].lesson_link]]]

\* a variant that answers an empty outline where nothing is found
get_course_outline_blank(s, course_name) ==
    {IF t = None
     THEN Some([title |-> "", course_link |-> "", instructor |-> "",
                lessons |-> <<>>])
     ELSE Some(outline_of(course_of(s, t[1])))
     : t \in resolve_course_name(s, course_name)}

\* store.get_course_outline(course_name), the values it may return: None
\* when the name resolves to no course, the outline of the resolved course
\* otherwise
get_course_outline(s, course_name) ==
    {IF t = None THEN None ELSE Some(outline_of(course_of(s, t[1])))
     : t \in resolve_course_name(s, course_name)}

\* the text of an outline
RECURSIVE format_lessons(_)
format_lessons(lessons) ==
    IF lessons = <<>> THEN ""
    ELSE "\n" \o ToString(lessons[1].lesson_number) \o ". "
              \o lessons[1].lesson_title \o " - " \o lessons[1].lesson_link
              \o format_lessons(Tail(lessons))

format_outline(o) ==
    "Course: " \o o.title \o "\nCourse Link: " \o o.course_link
        \o "\nInstructor: " \o o.instructor
        \o "\nLessons:" \o format_lessons(o.lessons)

\* CourseOutlineTool.execute(course_name), what it may return: the text,
\* and the course found (None when there is none)
CourseOutlineTool_execute(s, course_name) ==
    {IF o = None
     THEN [ret |-> "No course found matching " \o course_name \o ".",
           found |-> None]
     ELSE [ret |-> format_outline(o[1]), found |-> Some(o[1].title)]
     : o \in get_course_outline(s, course_name)}

\* a variant that adds the attribution to the ones held
sources_appended(sources, r) ==
    IF r.found = None THEN {sources, <<>>}
    ELSE {Append(sources, r.found[1])}

\* last_sources after execute: the one attribution of the course found;
\* without a course the tests do not say whether the list is kept or
\* emptied
sources_after(sources, r) ==
    IF r.found = None THEN {sources, <<>>}
    ELSE {<<r.found[1]>>}

\* the record of a call: the operation, its argument, the number of
\* courses stored when it was made, what it returned
Call(op, arg, ret) ==
    [op |-> op, arg |-> arg, courses |-> Len(store[1].catalog), ret |-> ret]

InitOutline ==
    /\ conversation_history = None
    /\ tools = None
    /\ tool_manager = None
    /\ system_content = SYSTEM_PROMPT
    /\ messages = <<>>
    /\ round_count = 0
    /\ response = NoResponse
    /\ block_idx = 0
    /\ tool_results = <<>>
    /\ has_critical_error = FALSE
    /\ requests = <<>>
    /\ responses = <<>>
    /\ executions = <<>>
    /\ tool_rounds = 0
    /\ result = None
    /\ store = Some(VectorStore(MAX_RESULTS))
    /\ searches = <<>>
    /\ results = None
    /\ last_sources = <<>>
    /\ manager_tools = <<>>
    /\ outcome = NoCall
    /\ http_request = None
    /\ session_id = None
    /\ rag_calls = <<>>
    /\ http_response = None
    /\ pc = "outline_ready"

\* everything but the tool, the manager and the last call
outline_frame == <<generator_vars, api_vars, pc, store, searches, results>>

\* store.add_course_metadata(test_course)
AddOutlineCourse ==
    /\ pc = "outline_ready"
    /\ add_course_metadata(OutlineCourses)

\* tool_manager.register_tool(outline_tool)
RegisterTool ==
    /\ pc = "outline_ready"
    /\ "get_course_outline" \notin {manager_tools[i] : i \in 1..Len(manager_tools)}
    /\ manager_tools' = Append(manager_tools, "get_course_outline")
    /\ UNCHANGED <<outline_frame, last_sources, outcome>>

\* store._resolve_course_name(course_name)
ResolveCourseName ==
    /\ pc = "outline_ready"
    /\ \E name \in CourseNames :
          \E t \in resolve_course_name(store[1], name) :
              outcome' = Call("_resolve_course_name", name, t)
    /\ UNCHANGED <<outline_frame, last_sources, manager_tools>>

\* store.get_course_outline(course_name)
GetCourseOutline ==
    /\ pc = "outline_ready"
    /\ \E name \in CourseNames :
          \E o \in get_course_outline(store[1], name) :
              outcome' = Call("get_course_outline", name, o)
    /\ UNCHANGED <<outline_frame, last_sources, manager_tools>>

\* the call op of the outline tool with course_name = name; the record
\* says who answered, the course found and the attributions held before
RunOutlineTool(op, name) ==
    \E r \in CourseOutlineTool_execute(store[1], name) :
        /\ outcome' = Call(op, name, r.ret)
                        @@ [by |-> "get_course_outline", found |-> r.found,
                            before |-> last_sources]
        /\ last_sources' \in sources_after(last_sources, r)

\* outline_tool.execute(course_name=name)
ExecuteOutline ==
    /\ pc = "outline_ready"
    /\ \E name \in CourseNames : RunOutlineTool("execute", name)
    /\ UNCHANGED <<outline_frame, manager_tools>>

\* tool_manager.execute_tool(tool_name, course_name=name)
ManagerExecute ==
    /\ pc = "outline_ready"
    /\ \E tool_name \in ToolNames, name \in CourseNames :
          IF tool_name \in {manager_tools[i] : i \in 1..Len(manager_tools)}
          THEN RunOutlineTool("execute_tool", name)
          ELSE /\ outcome' = Call("execute_tool", name,
                                  "Tool '" \o tool_name \o "' not found")
                               @@ [by |-> "ToolManager", found |-> None,
                                   before |-> last_sources]
               /\ UNCHANGED last_sources
    /\ UNCHANGED <<outline_frame, manager_tools>>

\* tool_manager.get_last_sources()
GetLastSources ==
    /\ pc = "outline_ready"
    /\ outcome' = Call("get_last_sources", "",
                       IF manager_tools = <<>> THEN <<>> ELSE last_sources)
    /\ UNCHANGED <<outline_frame, last_sources, manager_tools>>

NextOutline ==
    \/ AddOutlineCourse
    \/ RegisterTool
    \/ ResolveCourseName
    \/ GetCourseOutline
    \/ ExecuteOutline
    \/ ManagerExecute
    \/ GetLastSources

OutlineSpec == InitOutline /\ [][NextOutline]_vars

(***************************************************************************)
(* The endpoints of the test application (conftest.py, test_app): the      *)
(* handlers run one request at a time against mock_rag_system, whose       *)
(* calls return or raise.                                                  *)
(***************************************************************************)
\* the inputs of the requests
QueryTexts == {"Follow-up question", "New conversation"}
SessionArgs == {None, Some(""), Some("existing_session")}
ClearArgs == {"test_session_456", "bad_session"}

\* what the mocks return or raise
CreatedSessions == {"test_session_123", "test_session_124"}
Answers == {[answer |-> "Test answer from RAG system",
             sources |-> <<"Source 1", "Source 2">>]}
Analytics ==
    {[total_courses |-> 3,
      course_titles |-> <<"Course A", "Course B", "Course C">>],
     [total_courses |-> 0, course_titles |-> <<>>],
     EmptyDict}
RagExceptions == {"RAG system error", "Session error"}

\* a variant that creates a session only when the field is absent
needs_session_if_absent(sid) == sid = None

\* line 148: if not session_id
needs_session(sid) == ~TruthyStr(sid)

\* a variant that hides the message of the exception
HTTPException_generic(status_code, detail) ==
    [status_code |-> status_code, detail |-> "Internal Server Error"]

\* HTTPException(status_code=500, detail=str(e))
HTTPException(status_code, detail) ==
    [status_code |-> status_code, detail |-> detail]

\* a response of status 200 with its JSON body
OK(body) == [status_code |-> 200, body |-> body]

\* the record of a call of mock_rag_system that returned, or raised
Returned(op, call_args, ret) ==
    [op |-> op, args |-> call_args, ret |-> Some(ret), raised |-> None]
Raised(op, call_args, e) ==
    [op |-> op, args |-> call_args, ret |-> None, raised |-> Some(e)]

InitApi ==
    /\ conversation_history = None
    /\ tools = None
    /\ tool_manager = None
    /\ system_content = SYSTEM_PROMPT
    /\ messages = <<>>
    /\ round_count = 0
    /\ response = NoResponse
    /\ block_idx = 0
    /\ tool_results = <<>>
    /\ has_critical_error = FALSE
    /\ requests = <<>>
    /\ responses = <<>>
    /\ executions = <<>>
    /\ tool_rounds = 0
    /\ result = None
    /\ store = None
    /\ searches = <<>>
    /\ results = None
    /\ last_sources = <<>>
    /\ manager_tools = <<>>
    /\ outcome = NoCall
    /\ http_request = None
    /\ session_id = None
    /\ rag_calls = <<>>
    /\ http_response = None
    /\ pc = "api_idle"

\* the test client sends its next request once the last one is answered
Idle == pc \in {"api_idle", "api_responded"}

\* the handler starts on a request
Receive(request, handler) ==
    /\ Idle
    /\ http_request' = Some(request)
    /\ rag_calls' = <<>>
    /\ http_response' = None
    /\ pc' = handler

\* the handler answers
Respond(r) ==
    /\ http_response' = Some(r)
    /\ pc' = "api_responded"

\* POST /api/query; line 147: session_id = request.session_id
ReceiveQuery ==
    /\ \E q \in QueryTexts, sid \in SessionArgs :
          /\ Receive([endpoint |-> "query", query |-> q, session_id |-> sid],
                     "query_documents")
          /\ session_id' = sid
    /\ UNCHANGED <<generator_vars, store_vars>>

\* lines 148-149: create_session returns
CreateSessionReturns ==
    /\ pc = "query_documents"
    /\ needs_session(session_id)
    /\ \E new \in CreatedSessions :
          /\ session_id' = Some(new)
          /\ rag_calls' = Append(rag_calls,
                                 Returned("create_session", <<>>, new))
    /\ pc' = "rag_query"
    /\ UNCHANGED <<generator_vars, store_vars, http_request, http_response>>

\* lines 148-149 and 158-159: create_session raises
CreateSessionRaises ==
    /\ pc = "query_documents"
    /\ needs_session(session_id)
    /\ \E e \in RagExceptions :
          /\ rag_calls' = Append(rag_calls, Raised("create_session", <<>>, e))
          /\ Respond(HTTPException(500, e))
    /\ UNCHANGED <<generator_vars, store_vars, http_request, session_id>>

\* line 148: a session id was supplied
KeepSession ==
    /\ pc = "query_documents"
    /\ ~needs_session(session_id)
    /\ pc' = "rag_query"
    /\ UNCHANGED <<generator_vars, store_vars, api_vars>>

\* lines 151-157: query returns; the response is built
QueryReturns ==
    /\ pc = "rag_query"
    /\ \E a \in Answers :
          /\ rag_calls' = Append(rag_calls,
                Returned("query",
                         <<http_request[1].query, session_id[1]>>, a))
          /\ Respond(OK([answer |-> a.answer, sources |-> a.sources,
                         session_id |-> session_id[1]]))
    /\ UNCHANGED <<generator_vars, store_vars, http_request, session_id>>

\* lines 151 and 158-159: query raises
QueryRaises ==
    /\ pc = "rag_query"
    /\ \E e \in RagExceptions :
          /\ rag_calls' = Append(rag_calls,
                Raised("query", <<http_request[1].query, session_id[1]>>, e))
          /\ Respond(HTTPException(500, e))
    /\ UNCHANGED <<generator_vars, store_vars, http_request, session_id>>

\* GET /api/courses
ReceiveCourses ==
    /\ Receive([endpoint |-> "courses"], "get_course_stats")
    /\ UNCHANGED <<generator_vars, store_vars, session_id>>

\* lines 164-168: get_course_analytics returns; a dict without the keys
\* makes the subscript raise KeyError inside the try
AnalyticsReturns ==
    /\ pc = "get_course_stats"
    /\ \E analytics \in Analytics :
          /\ rag_calls' = Append(rag_calls,
                Returned("get_course_analytics", <<>>, analytics))
          /\ IF "total_courses" \in DOMAIN analytics
             THEN Respond(OK([total_courses |-> analytics.total_courses,
                              course_titles |-> analytics.course_titles]))
             ELSE Respond(HTTPException(500, "'total_courses'"))
    /\ UNCHANGED <<generator_vars, store_vars, http_request, session_id>>

\* lines 164 and 169-170: get_course_analytics raises
AnalyticsRaises ==
    /\ pc = "get_course_stats"
    /\ \E e \in RagExceptions :
          /\ rag_calls' = Append(rag_calls,
                Raised("get_course_analytics", <<>>, e))
          /\ Respond(HTTPException(500, e))
    /\ UNCHANGED <<generator_vars, store_vars, http_request, session_id>>

\* DELETE /api/session/{session_id}
ReceiveClear ==
    /\ \E sid \in ClearArgs :
          Receive([endpoint |-> "clear_session", session_id |-> sid],
                  "clear_session")
    /\ UNCHANGED <<generator_vars, store_vars, session_id>>

\* lines 174-176: clear_session returns
ClearReturns ==
    /\ pc = "clear_session"
    /\ rag_calls' = Append(rag_calls,
          Returned("clear_session", <<http_request[1].session_id>>, "None"))
    /\ Respond(OK([status |-> "cleared",
                   session_id |-> http_request[1].session_id]))
    /\ UNCHANGED <<generator_vars, store_vars, http_request, session_id>>

\* lines 175 and 177-178: clear_session raises
ClearRaises ==
    /\ pc = "clear_session"
    /\ \E e \in RagExceptions :
          /\ rag_calls' = Append(rag_calls,
                Raised("clear_session", <<http_request[1].session_id>>, e))
          /\ Respond(HTTPException(500, e))
    /\ UNCHANGED <<generator_vars, store_vars, http_request, session_id>>

NextApi ==
    \/ ReceiveQuery
    \/ CreateSessionReturns
    \/ CreateSessionRaises
    \/ KeepSession
    \/ QueryReturns
    \/ QueryRaises
    \/ ReceiveCourses
    \/ AnalyticsReturns
    \/ AnalyticsRaises
    \/ ReceiveClear
    \/ ClearReturns
    \/ ClearRaises

ApiSpec == InitApi /\ [][NextApi]_vars


TypeOK ==
    /\ pc \in {"loop", "api_call", "dispatch", "execute_tools",
               "final_call", "done", "raised"}
    /\ round_count \in 0..MAX_TOOL_ROUNDS
    /\ has_critical_error \in BOOLEAN
    /\ Len(responses) <= Len(requests)

(***************************************************************************)
(* Vocabulary of the properties                                            *)
(***************************************************************************)
R == MAX_TOOL_ROUNDS

Last(seq) == seq[Len(seq)]

\* the i-th LLM call was made by the loop / by _final_call_without_tools
InLoop(i) == requests[i].via = "generate_response"
IsFinal(i) == requests[i].via = "_final_call_without_tools"

\* the request carries tool schemas / a tool-choice policy
HasTools(req) == "tools" \in DOMAIN req.params
HasToolChoice(req) == "tool_choice" \in DOMAIN req.params

IsCompletion(r) == r.stop_reason \in {"end_turn", "max_tokens"}
IsToolRequest(r) == r.stop_reason = "tool_use"
HasToolBlock(r) ==
    \E i \in 1..Len(r.content) : r.content[i].type = "tool_use"

\* some / no tool execution raised; some execution of round n raised
NoToolRaised == \A j \in 1..Len(executions) : ~executions[j].raised
RaisedInRound(n) ==
    \E j \in 1..Len(executions) :
        executions[j].raised /\ executions[j].after = n

\* no tool was executed for the n-th response or any later one
NoExecutionFrom(n) == \A j \in 1..Len(executions) : executions[j].after < n

\* the query is over after the i-th response, whose text is the return value
ReturnsAt(i) ==
    /\ Len(requests) = i
    /\ NoExecutionFrom(i)
    /\ tool_rounds < i
    /\ pc \in {"dispatch", "done"}
    /\ pc = "done" => result = Some(_extract_text_response(responses[i]))

(***************************************************************************)
(* C1: with a registry, when every in-loop call is answered by a tool      *)
(* request and no tool execution raises, the query makes exactly R+1 LLM   *)
(* calls: R in-loop calls and one final call, which carries neither tool   *)
(* schemas nor a tool-choice policy.                                       *)
(***************************************************************************)
C1_AlwaysTools ==
    /\ tool_manager # None
    /\ NoToolRaised
    /\ \A i \in 1..Len(responses) : InLoop(i) => IsToolRequest(responses[i])

C1_RoundLimitCalls ==
    (pc = "done" /\ C1_AlwaysTools) =>
        /\ Len(requests) = R + 1
        /\ \A i \in 1..R : InLoop(i)
        /\ IsFinal(R + 1)
        /\ ~HasTools(requests[R + 1])
        /\ ~HasToolChoice(requests[R + 1])

C1_Witness ==
    /\ pc = "done"
    /\ C1_AlwaysTools
    /\ TruthyList(tools)
    /\ Len(executions) >= R
    /\ HasTools(requests[R])

(***************************************************************************)
(* C2: once a tool execution of round n has raised, the query makes         *)
(* exactly one more LLM call, the (n+1)-th, through                        *)
(* _final_call_without_tools and without tool schemas, executes no tool    *)
(* after round n, and returns the text of that call's response.            *)
(***************************************************************************)
C2_ErrorShortCircuit ==
    \A j \in 1..Len(executions) :
        executions[j].raised =>
            LET n == executions[j].after IN
            /\ Len(requests) <= n + 1
            /\ NoExecutionFrom(n + 1)
            /\ tool_rounds = n
            /\ pc \in {"execute_tools", "final_call", "done", "raised"}
            /\ Len(requests) = n + 1 =>
                  /\ IsFinal(n + 1)
                  /\ ~HasTools(requests[n + 1])
                  /\ ~HasToolChoice(requests[n + 1])
            /\ pc = "done" =>
                  /\ Len(requests) = n + 1
                  /\ result = Some(_extract_text_response(responses[n + 1]))

C2_Witness ==
    /\ pc = "done"
    /\ RaisedInRound(1)
    /\ round_count = 0
    /\ TruthyList(tools)
    /\ Len(requests) = 2

(***************************************************************************)
(* C3: whatever stop reasons the model returns and whatever the tools do,  *)
(* the query never makes more than R+1 LLM calls and it ends: it reaches   *)
(* done, unless an LLM call itself raised and ended it earlier.            *)
(***************************************************************************)
C3_Terminates ==
    /\ [](Len(requests) <= R + 1)
    /\ <>(pc \in {"done", "raised"})

C3_Witness ==
    /\ pc = "done"
    /\ Len(requests) = R + 1
    /\ round_count = R

(***************************************************************************)
(* C4: when the first response is not a tool request, the query makes      *)
(* exactly one LLM call and executes no tool.                              *)
(***************************************************************************)
C4_DirectAnswer ==
    (Len(responses) >= 1 /\ ~IsToolRequest(responses[1])) =>
        /\ Len(requests) = 1
        /\ executions = <<>>
        /\ tool_rounds = 0

C4_Witness ==
    /\ pc = "done"
    /\ tool_manager # None
    /\ responses[1].stop_reason = "stop_sequence"
    /\ HasToolBlock(responses[1])

(***************************************************************************)
(* C5: with a registry, when the first k < R responses are tool requests,  *)
(* no tool execution raises and response k+1 is a completion, the query    *)
(* makes exactly k+1 LLM calls and runs exactly k tool rounds.             *)
(***************************************************************************)
C5_ToolsThenCompletion(k) ==
    /\ tool_manager # None
    /\ NoToolRaised
    /\ Len(responses) >= k + 1
    /\ \A i \in 1..k : IsToolRequest(responses[i])
    /\ IsCompletion(responses[k + 1])

C5_KRounds ==
    \A k \in 0..(R - 1) :
        C5_ToolsThenCompletion(k) =>
            /\ Len(requests) = k + 1
            /\ tool_rounds = k

C5_Witness ==
    /\ pc = "done"
    /\ C5_ToolsThenCompletion(1)
    /\ HasToolBlock(responses[2])
    /\ executions # <<>>

(***************************************************************************)
(* C6: an in-loop response with a completion stop reason ends the query:   *)
(* its text is returned, no later LLM call is made and no tool is executed *)
(* for it, even when it holds tool-call blocks.                            *)
(***************************************************************************)
C6_CompletionReturns ==
    \A i \in 1..Len(responses) :
        (InLoop(i) /\ IsCompletion(responses[i])) => ReturnsAt(i)

C6_Witness ==
    /\ pc = "done"
    /\ tool_manager # None
    /\ InLoop(Len(requests))
    /\ Last(responses).stop_reason = "max_tokens"
    /\ HasToolBlock(Last(responses))
    /\ result # Some("")

(***************************************************************************)
(* C7: generate_response never ends by propagating an exception.           *)
(***************************************************************************)
C7_NeverRaises == pc # "raised"

(***************************************************************************)
(* C8: a tool call that returns a string is not a critical error: its      *)
(* result is recorded under the call's id without an error tag, a round    *)
(* in which no call raised leaves has_critical_error false and increments  *)
(* the round counter, and the call that follows such a round while rounds  *)
(* remain is an in-loop call, carrying the tool schemas that were passed.  *)
(***************************************************************************)
\* the tool executions of round n, and the results recorded for round n
ExecsOfRound(n) == SelectSeq(executions, LAMBDA e : e.after = n)
ResultsOfRound(n) ==
    IF Len(messages) >= 2 * n + 1 THEN messages[2 * n + 1].content
    ELSE IF pc = "execute_tools" /\ Len(requests) = n THEN tool_results
    ELSE <<>>
RoundAppended(n) == Len(messages) >= 2 * n + 1

C8_StringResultNotCritical ==
    \A n \in 1..Len(requests) :
        LET ex == ExecsOfRound(n)
            res == ResultsOfRound(n)
        IN
        /\ \A k \in 1..Len(ex) :
              ~ex[k].raised =>
                  /\ k <= Len(res)
                  /\ res[k].tool_use_id = ex[k].id
                  /\ res[k].content \in ToolStrings
                  /\ "is_error" \notin DOMAIN res[k]
        /\ (pc = "execute_tools" /\ Len(requests) = n /\ ~RaisedInRound(n))
              => ~has_critical_error
        /\ (RoundAppended(n) /\ ~RaisedInRound(n)) =>
              /\ round_count >= n
              /\ pc = "done" => Len(requests) > n
              /\ (n < R /\ Len(requests) > n) =>
                    /\ InLoop(n + 1)
                    /\ TruthyList(tools) =>
                          /\ HasTools(requests[n + 1])
                          /\ HasToolChoice(requests[n + 1])

C8_Witness ==
    /\ Len(requests) = 2
    /\ round_count = 1
    /\ InLoop(2)
    /\ HasTools(requests[2])
    /\ Len(messages) = 3
    /\ \E k \in 1..Len(messages[3].content) :
          messages[3].content[k].content
              = "Tool 'search_course_content' not found"

(***************************************************************************)
(* C9 as stated: the i-th LLM call is without tool schemas if and only if  *)
(* a tool execution of the preceding round raised or the round counter had *)
(* reached R (which makes it call R+1).                                    *)
(***************************************************************************)
C9_SchemaLessIffForced ==
    \A i \in 1..Len(requests) :
        ~HasTools(requests[i])
            <=> (RaisedInRound(i - 1) \/ (round_count = R /\ i = R + 1))

(***************************************************************************)
(* C9 amended: a call through _final_call_without_tools is made if and     *)
(* only if a tool execution of the preceding round raised or the round     *)
(* counter has reached R; every other call is an in-loop call, and an      *)
(* in-loop call lacks tool schemas only when no non-empty tool list was    *)
(* passed.  The final call never carries tool schemas.                     *)
(***************************************************************************)
C9_FinalCallIffForced ==
    [][Len(requests') # Len(requests) =>
        LET i == Len(requests')
            req == requests'[i]
        IN
        /\ i = Len(requests) + 1
        /\ req.via = "_final_call_without_tools"
              <=> (RaisedInRound(i - 1) \/ round_count = R)
        /\ req.via # "_final_call_without_tools"
              => /\ req.via = "generate_response"
                 /\ HasTools(req) <=> TruthyList(tools)
        /\ req.via = "_final_call_without_tools"
              => ~HasTools(req) /\ ~HasToolChoice(req)
    ]_vars

C9_Witness ==
    /\ pc = "final_call"
    /\ RaisedInRound(1)
    /\ round_count < R
    /\ TruthyList(tools)
    /\ IsFinal(2)

(***************************************************************************)
(* C10: an in-loop response whose stop reason is neither a completion nor  *)
(* a tool request, or is a tool request while no registry was supplied,    *)
(* ends the query: its text is returned, no later LLM call is made and no  *)
(* tool is executed for it.                                                *)
(***************************************************************************)
C10_OtherStopReturns ==
    \A i \in 1..Len(responses) :
        ( /\ InLoop(i)
          /\ ~IsCompletion(responses[i])
          /\ ~IsToolRequest(responses[i]) \/ tool_manager = None )
        => ReturnsAt(i)

C10_Witness ==
    /\ pc = "done"
    /\ tool_manager = None
    /\ TruthyList(tools)
    /\ IsToolRequest(Last(responses))
    /\ HasToolBlock(Last(responses))
    /\ Len(requests) = 1
    /\ result = Some("t1")

(***************************************************************************)
(* C11: in every tool round execute_tool is called exactly once per        *)
(* tool-call block of the response, in block order, and the tool-results   *)
(* turn holds exactly one result per tool-call block, labelled with that   *)
(* block's id; the result of a call that raised, and only that one, has    *)
(* is_error set and a content starting with "Tool execution error:".       *)
(***************************************************************************)
ToolBlocks(content) == SelectSeq(content, LAMBDA b : b.type = "tool_use")

\* the tool-call blocks of round n that _execute_tools has passed so far
BlocksDone(n) ==
    IF RoundAppended(n) THEN ToolBlocks(messages[2 * n].content)
    ELSE IF pc = "execute_tools" /\ Len(requests) = n
    THEN ToolBlocks(SubSeq(response.content, 1, block_idx - 1))
    ELSE <<>>

ErrorContents == {"Tool execution error: " \o e : e \in ToolExceptions}

C11_OneResultPerToolCall ==
    \A n \in 1..Len(requests) :
        LET blocks == BlocksDone(n)
            ex == ExecsOfRound(n)
            res == ResultsOfRound(n)
        IN
        /\ Len(ex) = Len(blocks)
        /\ Len(res) = Len(blocks)
        /\ \A k \in 1..Len(blocks) :
              /\ ex[k].id = blocks[k].id
              /\ ex[k].name = blocks[k].name
              /\ res[k].type = "tool_result"
              /\ res[k].tool_use_id = blocks[k].id
              /\ ex[k].raised <=> "is_error" \in DOMAIN res[k]
              /\ ex[k].raised =>
                    res[k].is_error /\ res[k].content \in ErrorContents
              /\ ~ex[k].raised => res[k].content \in ToolStrings

C11_Witness ==
    /\ RoundAppended(1)
    /\ Len(messages[3].content) = 2
    /\ "is_error" \in DOMAIN messages[3].content[1]
    /\ "is_error" \notin DOMAIN messages[3].content[2]
    /\ messages[3].content[2].tool_use_id = "tool-2"

(***************************************************************************)
(* C12: the message history only grows, two turns per tool round; the n-th *)
(* LLM call sees exactly 1 + 2(n-1) turns: the user turn with the query,   *)
(* then for each earlier round an assistant turn holding that response's   *)
(* raw content and a user turn holding that round's tool results.          *)
(***************************************************************************)
RoleAt(i) == IF i % 2 = 1 THEN "user" ELSE "assistant"

C12_HistoryAt(n) ==
    LET m == requests[n].params.messages IN
    /\ Len(m) = 1 + 2 * (n - 1)
    /\ Len(m) <= Len(messages)
    /\ m = SubSeq(messages, 1, Len(m))
    /\ m[1] = [role |-> "user", content |-> query]
    /\ \A i \in 1..Len(m) :
          /\ DOMAIN m[i] = {"role", "content"}
          /\ m[i].role = RoleAt(i)
    /\ \A k \in 1..(n - 1) :
          /\ m[2 * k].content = responses[k].content
          /\ Len(m[2 * k + 1].content)
                = Len(ToolBlocks(responses[k].content))
          /\ \A j \in 1..Len(m[2 * k + 1].content) :
                m[2 * k + 1].content[j].type = "tool_result"

C12_HistoryWellFormed ==
    /\ [](\A n \in 1..Len(requests) : C12_HistoryAt(n))
    /\ [][/\ Len(messages') \in {Len(messages), Len(messages) + 2}
          /\ SubSeq(messages', 1, Len(messages)) = messages]_vars

C12_Witness ==
    /\ Len(requests) = 3
    /\ Len(requests[3].params.messages) = 5
    /\ requests[3].params.messages[4].role = "assistant"
    /\ Len(requests[3].params.messages[5].content) = 2

(***************************************************************************)
(* C13: an in-loop call carries the tool schemas and the "auto"            *)
(* tool-choice policy if and only if a non-empty tool list was passed;     *)
(* when none was passed no call of the query carries tools or tool_choice. *)
(***************************************************************************)
NonEmptyToolList == tools # None /\ Len(tools[1]) > 0

C13_ToolsIffPassed ==
    \A i \in 1..Len(requests) :
        /\ InLoop(i) =>
              /\ HasTools(requests[i]) <=> NonEmptyToolList
              /\ HasToolChoice(requests[i]) <=> NonEmptyToolList
              /\ NonEmptyToolList =>
                    /\ requests[i].params.tools = tools[1]
                    /\ requests[i].params.tool_choice = [type |-> "auto"]
        /\ ~NonEmptyToolList =>
              ~HasTools(requests[i]) /\ ~HasToolChoice(requests[i])

C13_Witness ==
    /\ pc = "done"
    /\ tools = Some(<<>>)
    /\ tool_manager # None
    /\ Len(requests) = 3
    /\ ~HasTools(requests[1])

(***************************************************************************)
(* C14: the returned value is the text of the last response received and   *)
(* of nothing else: the text blocks of that response, in order, joined by  *)
(* newlines.  Text of earlier responses and tool results are not in it.    *)
(***************************************************************************)
\* the text of a response, stated without the code's helpers: the texts of
\* the blocks of type text, folded from the left with a newline in between
TextBlocks(content) == SelectSeq(content, LAMBDA b : b.type = "text")

RECURSIVE JoinedUpTo(_, _)
JoinedUpTo(blocks, n) ==
    IF n = 0 THEN ""
    ELSE IF n = 1 THEN blocks[1].text
    ELSE JoinedUpTo(blocks, n - 1) \o "\n" \o blocks[n].text

ExpectedText(content) ==
    JoinedUpTo(TextBlocks(content), Len(TextBlocks(content)))

C14_ReturnsLastResponseText ==
    pc = "done" =>
        /\ Len(responses) = Len(requests)
        /\ response = Last(responses)
        /\ result = Some(ExpectedText(Last(responses).content))

C14_Witness ==
    /\ pc = "done"
    /\ Len(responses) = 3
    /\ Len(executions) = 2
    /\ IsCompletion(responses[3])
    /\ ExpectedText(responses[1].content) = "t1"
    /\ ExpectedText(responses[2].content) = "t1"
    /\ result = Some("t2")

(***************************************************************************)
(* C16: the steps of a query are strictly sequential.  At most one LLM     *)
(* call is outstanding; a tool is executed only while no LLM call is       *)
(* outstanding, on the blocks of the response received last; an LLM call   *)
(* is issued only when every block of the round has been passed; a         *)
(* response arrives only for the one outstanding call; and no step does    *)
(* two of these things at once.                                            *)
(***************************************************************************)
CallOutstanding == Len(requests) = Len(responses) + 1

C16_OneAtATime ==
    /\ Len(requests) \in {Len(responses), Len(responses) + 1}
    /\ CallOutstanding <=> pc \in {"api_call", "final_call", "raised"}
    /\ \A j \in 1..Len(executions) :
          /\ executions[j].after <= Len(responses)
          /\ j > 1 => executions[j - 1].after <= executions[j].after

C16_StepOrder ==
    /\ executions' # executions =>
          /\ ~CallOutstanding
          /\ pc = "execute_tools"
          /\ Len(executions') = Len(executions) + 1
          /\ Last(executions').after = Len(responses)
          /\ Last(executions').id = response.content[block_idx].id
          /\ response = Last(responses)
          /\ requests' = requests /\ responses' = responses
    /\ requests' # requests =>
          /\ ~CallOutstanding
          /\ Len(requests') = Len(requests) + 1
          /\ pc = "execute_tools" => block_idx > Len(response.content)
          /\ Len(ExecsOfRound(Len(requests)))
                = Len(ToolBlocks(response.content))
             \/ pc = "loop"
          /\ executions' = executions /\ responses' = responses
    /\ responses' # responses =>
          /\ CallOutstanding
          /\ Len(responses') = Len(responses) + 1
          /\ executions' = executions /\ requests' = requests

C16_Sequential == [](C16_OneAtATime) /\ [][C16_StepOrder]_vars

C16_Witness ==
    /\ pc = "final_call"
    /\ Len(requests) = 3
    /\ Len(executions) = 4
    /\ executions[2].after = 1
    /\ executions[3].after = 2

(***************************************************************************)
(* C17: every call of a query carries the system instruction built at the  *)
(* start: the fixed prompt, followed by "Previous conversation:" and the   *)
(* prior history exactly when a non-empty history was given.  The message  *)
(* list starts as the single user turn holding the query, and the prior    *)
(* history is in no turn of it.                                            *)
(***************************************************************************)
HistoryGiven == conversation_history # None /\ conversation_history[1] # ""

ExpectedSystem ==
    IF conversation_history = None THEN SYSTEM_PROMPT
    ELSE IF conversation_history[1] = "" THEN SYSTEM_PROMPT
    ELSE SYSTEM_PROMPT \o "\n\nPrevious conversation:\n"
                       \o conversation_history[1]

\* the contents a later turn of the message list may hold: raw response
\* contents, tool results
IsHistoryFree(turn) ==
    \/ turn.role = "assistant" /\ turn.content \in Contents
    \/ /\ turn.role = "user"
       /\ \A j \in 1..Len(turn.content) :
             turn.content[j].type = "tool_result"

C17_SeededConversation ==
    /\ system_content = ExpectedSystem
    /\ system_content = SYSTEM_PROMPT <=> ~HistoryGiven
    /\ messages[1] = [role |-> "user", content |-> query]
    /\ \A i \in 2..Len(messages) : IsHistoryFree(messages[i])
    /\ \A n \in 1..Len(requests) :
          /\ requests[n].params.system = ExpectedSystem
          /\ requests[n].params.messages[1]
                = [role |-> "user", content |-> query]
    /\ requests # <<>> => requests[1].params.messages
                            = <<[role |-> "user", content |-> query]>>

C17_Witness ==
    /\ HistoryGiven
    /\ Len(requests) = 2
    /\ requests[1].params.system
          = "SYSTEM_PROMPT\n\nPrevious conversation:\nUser: hi\nAssistant: hello"
    /\ Len(requests[1].params.messages) = 1

(***************************************************************************)
(* C18: whenever the query has stopped, it has returned a text, through    *)
(* exactly one of its exits: a return from inside the loop or the forced   *)
(* final call.                                                             *)
(***************************************************************************)
Stopped == ~ENABLED Next

ReturnedInLoop ==
    /\ pc = "done" /\ result # None
    /\ InLoop(Len(requests))
    /\ Len(responses) = Len(requests)

ReturnedForced ==
    /\ pc = "done" /\ result # None
    /\ IsFinal(Len(requests))
    /\ Len(responses) = Len(requests)
    /\ RaisedInRound(Len(requests) - 1) \/ round_count = R

C18_EndsWithOutcome ==
    Stopped => (ReturnedInLoop /\ ~ReturnedForced)
               \/ (ReturnedForced /\ ~ReturnedInLoop)

\* the same without the runs ended by an exception of an LLM call
C18_OutcomeUnlessRaised ==
    (Stopped /\ pc # "raised") =>
        (ReturnedInLoop /\ ~ReturnedForced)
        \/ (ReturnedForced /\ ~ReturnedInLoop)

(***************************************************************************)
(* C15: _extract_text_response returns the texts of exactly the blocks of  *)
(* type text, in emission order, joined by single newlines; tool-call      *)
(* blocks are skipped, and a response without text block gives "".         *)
(***************************************************************************)
C15_ExtractText ==
    pc = "extracted" =>
        /\ result = Some(ExpectedText(response.content))
        /\ TextBlocks(response.content) = <<>> => result = Some("")
        /\ Len(TextBlocks(response.content)) = 1
              => result = Some(TextBlocks(response.content)[1].text)

C15_Witness ==
    /\ pc = "extracted"
    /\ Len(response.content) = 3
    /\ response.content[1].type = "text"
    /\ response.content[2].type = "tool_use"
    /\ response.content[3].type = "text"
    /\ result = Some("More text\nSome text")

(***************************************************************************)
(* C19: a store with a non-positive result limit is rejected when it is    *)
(* constructed: no store with max_results <= 0 ever exists, and no search  *)
(* is ever issued with a non-positive limit.                               *)
(***************************************************************************)
C19_RejectedAtConstruction ==
    /\ store # None => store[1].max_results > 0
    /\ \A n \in 1..Len(searches) : searches[n].n_results > 0

\* what the store does instead: the constructor accepts the limit, and a
\* search with a non-positive limit comes back empty, with or without error
C19_FailsAtQueryTime ==
    (/\ searches # <<>>
     /\ Last(searches).n_results <= 0) => /\ results # None
                                         /\ results[1].documents = <<>>

(***************************************************************************)
(* C20: a search without course filter on a store with a positive limit    *)
(* that holds no passages returns the empty result set with no error.      *)
(***************************************************************************)
C20_Unpopulated ==
    /\ Len(searches') = Len(searches) + 1
    /\ Last(searches').course_name = None
    /\ store[1].max_results > 0
    /\ store[1].content = <<>>

C20_EmptyStoreNoError ==
    [][C20_Unpopulated => results' = Some(SearchResults(<<>>, None))]_vars

C20_Witness ==
    /\ store # None
    /\ store[1].max_results = 5
    /\ store[1].content = <<>>
    /\ Len(searches) = 1
    /\ searches[1].course_name = None
    /\ results = Some([documents |-> <<>>, error |-> None])

(***************************************************************************)
(* C26: the round counter and the error short-circuit do not look at the   *)
(* number of tool-call blocks of a round.  Every finished round has        *)
(* appended one result per tool-call block (an empty user turn when there  *)
(* is none), the counter equals the number of finished rounds in which     *)
(* nothing raised, and a finished query has made the number of LLM calls   *)
(* that follows from the stop reasons and the raising rounds alone.        *)
(***************************************************************************)
\* the number of LLM calls of a finished query, from in-loop response n on
RECURSIVE ExpectedCalls(_)
ExpectedCalls(n) ==
    IF n > Len(responses) THEN n
    ELSE IF ~IsToolRequest(responses[n]) \/ tool_manager = None THEN n
    ELSE IF RaisedInRound(n) THEN n + 1
    ELSE IF n = R THEN R + 1
    ELSE ExpectedCalls(n + 1)

\* the finished rounds in which no execution raised
CleanRounds == {n \in 1..tool_rounds : RoundAppended(n) /\ ~RaisedInRound(n)}

C26_BlockCountIrrelevant ==
    /\ \A n \in 1..tool_rounds :
          RoundAppended(n) =>
              /\ messages[2 * n + 1].role = "user"
              /\ Len(messages[2 * n + 1].content)
                    = Len(ToolBlocks(responses[n].content))
    /\ round_count = Cardinality(CleanRounds)
    /\ pc = "done" => Len(requests) = ExpectedCalls(1)

C26_Witness ==
    /\ pc = "done"
    /\ round_count = 2
    /\ Len(requests) = 3
    /\ ToolBlocks(responses[1].content) = <<>>
    /\ messages[3] = [role |-> "user", content |-> <<>>]
    /\ Len(ToolBlocks(responses[2].content)) = 2
    /\ Len(messages[5].content) = 2

(***************************************************************************)
(* C27: the final call made after a round with a raising tool execution    *)
(* carries the history extended by that round: the assistant turn with     *)
(* the response's raw content and the user turn with all results of the    *)
(* round, the error-tagged one among them.                                 *)
(***************************************************************************)
IsErrorResult(res) == "is_error" \in DOMAIN res

C27_FinalCallSeesFailedRound ==
    \A n \in 1..Len(requests) :
        (n > 1 /\ IsFinal(n) /\ RaisedInRound(n - 1)) =>
            LET sent == requests[n].params.messages IN
            /\ Len(sent) = 2 * n - 1
            /\ sent = messages
            /\ sent[2 * n - 2]
                  = [role |-> "assistant", content |-> responses[n - 1].content]
            /\ sent[2 * n - 1].role = "user"
            /\ Len(sent[2 * n - 1].content)
                  = Len(ToolBlocks(responses[n - 1].content))
            /\ \E k \in 1..Len(sent[2 * n - 1].content) :
                  IsErrorResult(sent[2 * n - 1].content[k])

C27_Witness ==
    /\ pc = "final_call"
    /\ Len(requests) = 2
    /\ RaisedInRound(1)
    /\ Len(requests[2].params.messages) = 3
    /\ Len(requests[2].params.messages[3].content) = 2
    /\ IsErrorResult(requests[2].params.messages[3].content[1])
    /\ ~IsErrorResult(requests[2].params.messages[3].content[2])

(***************************************************************************)
(* C28: a raising tool call does not end its round: when the round is      *)
(* over every tool-call block of the response has been executed and has    *)
(* its own result, and within a round the critical-error flag, once set,   *)
(* stays set.                                                              *)
(***************************************************************************)
C28_AllBlocksExecuted ==
    \A n \in 1..tool_rounds :
        (RoundAppended(n) /\ RaisedInRound(n)) =>
            LET blocks == ToolBlocks(responses[n].content)
                ex == ExecsOfRound(n)
                res == messages[2 * n + 1].content
            IN
            /\ Len(ex) = Len(blocks)
            /\ Len(res) = Len(blocks)
            /\ \A k \in 1..Len(blocks) :
                  /\ ex[k].id = blocks[k].id
                  /\ res[k].tool_use_id = blocks[k].id
                  /\ IsErrorResult(res[k]) <=> ex[k].raised

C28_FlagInRound ==
    pc = "execute_tools" =>
        (has_critical_error <=> RaisedInRound(Len(requests)))

C28_FlagStaysSet ==
    (pc = "execute_tools" /\ has_critical_error) => has_critical_error'

C28_ErrorDoesNotStopRound ==
    /\ [](C28_AllBlocksExecuted /\ C28_FlagInRound)
    /\ [][C28_FlagStaysSet]_vars

C28_Witness ==
    /\ pc = "final_call"
    /\ Len(executions) = 2
    /\ executions[1].raised
    /\ ~executions[2].raised
    /\ executions[2].after = 1
    /\ Len(messages[3].content) = 2

(***************************************************************************)
(* C29: the final call ends the query whatever its response is: it is the  *)
(* last request, no tool is executed after it, and once its response is    *)
(* there the query is done with that response's text.                      *)
(***************************************************************************)
C29_FinalCallTerminal ==
    \A n \in 1..Len(requests) :
        IsFinal(n) =>
            /\ n = Len(requests)
            /\ NoExecutionFrom(n)
            /\ pc \in {"final_call", "done", "raised"}
            /\ Len(responses) = n =>
                  /\ pc = "done"
                  /\ result = Some(_extract_text_response(responses[n]))

C29_Witness ==
    /\ pc = "done"
    /\ tool_manager # None
    /\ IsFinal(Len(requests))
    /\ IsToolRequest(Last(responses))
    /\ HasToolBlock(Last(responses))
    /\ result = Some("")

(***************************************************************************)
(* C30: the round counter stays within 0..R, a step changes it only by     *)
(* adding one, at the end of a tool round in which no execution raised,    *)
(* and a query performs at most R tool rounds.                             *)
(***************************************************************************)
C30_Bounds ==
    /\ round_count \in 0..R
    /\ tool_rounds \in 0..R
    /\ round_count <= tool_rounds

C30_CounterStep ==
    round_count' # round_count =>
        /\ round_count' = round_count + 1
        /\ pc = "execute_tools"
        /\ block_idx > Len(response.content)
        /\ ~RaisedInRound(Len(requests))
        /\ tool_rounds = round_count'

C30_RoundCounter == [](C30_Bounds) /\ [][C30_CounterStep]_vars

C30_Witness ==
    /\ round_count = R
    /\ tool_rounds = R
    /\ pc = "done"

(***************************************************************************)
(* C21: on an empty catalog the course resolution and get_course_outline   *)
(* find nothing, whatever the name, and the Outline Tool then returns      *)
(* "No course found matching <name>."; on a non-empty catalog the          *)
(* resolution of a non-empty name returns a stored title.                  *)
(***************************************************************************)
IsOutlineRun ==
    /\ outcome.op \in {"execute", "execute_tool"}
    /\ outcome.by = "get_course_outline"

C21_EmptyCatalog ==
    outcome.op # "none" /\ outcome.courses = 0 =>
        /\ outcome.op \in {"_resolve_course_name", "get_course_outline"}
              => outcome.ret = None
        /\ IsOutlineRun
              => outcome.ret
                    = "No course found matching " \o outcome.arg \o "."

C21_NonEmptyCatalog ==
    (/\ outcome.op = "_resolve_course_name"
     /\ outcome.courses > 0
     /\ outcome.arg # "") => /\ outcome.ret # None
                             /\ outcome.ret[1] \in titles(store[1])

C21_NotFoundOnEmptyCatalog == C21_EmptyCatalog /\ C21_NonEmptyCatalog

C21_Witness ==
    /\ store[1].catalog = <<>>
    /\ outcome.op = "execute"
    /\ outcome.arg = "Any Course Name"
    /\ outcome.ret = "No course found matching Any Course Name."

C21_WitnessResolved ==
    /\ outcome.op = "_resolve_course_name"
    /\ outcome.courses = 2
    /\ outcome.arg = "Test"
    /\ outcome.ret = Some("Integration Test Course")

(***************************************************************************)
(* C22: the lessons of an outline returned by get_course_outline are those *)
(* of the resolved course, by increasing lesson_number, in whatever order  *)
(* they were supplied.                                                     *)
(***************************************************************************)
LessonNumbers(lessons) == [i \in 1..Len(lessons) |-> lessons[i].lesson_number]

C22_LessonsInOrder ==
    (outcome.op = "get_course_outline" /\ outcome.ret # None) =>
        LET found == LessonNumbers(outcome.ret[1].lessons)
            given == LessonNumbers(course_of(store[1],
                                             outcome.ret[1].title).lessons)
        IN
        /\ \A i \in 1..(Len(found) - 1) : found[i] < found[i + 1]
        /\ Len(found) = Len(given)
        /\ {found[i] : i \in 1..Len(found)} = {given[i] : i \in 1..Len(given)}

C22_Witness ==
    /\ outcome.op = "get_course_outline"
    /\ outcome.ret # None
    /\ LessonNumbers(outcome.ret[1].lessons) = <<0, 1>>
    /\ LessonNumbers(course_of(store[1], outcome.ret[1].title).lessons)
          = <<1, 0>>

(***************************************************************************)
(* C23: after an execution of the Outline Tool that found a course, by     *)
(* the tool itself or through the manager, the tool holds the one          *)
(* attribution of that course, whatever it held before, and                *)
(* get_last_sources of the manager the tool is registered with returns     *)
(* that attribution alone.                                                 *)
(***************************************************************************)
IsOutlineFound ==
    outcome.op \in {"execute", "execute_tool"} /\ outcome.found # None

C23_HoldsOne ==
    IsOutlineFound =>
        /\ last_sources = <<outcome.found[1]>>
        /\ outcome.found[1] \in titles(store[1])

C23_ManagerReturnsIt ==
    (/\ IsOutlineFound
     /\ manager_tools # <<>>
     /\ outcome'.op = "get_last_sources")
        => outcome'.ret = <<outcome.found[1]>>

C23_SingleSource == [](C23_HoldsOne) /\ [][C23_ManagerReturnsIt]_vars

C23_Witness ==
    /\ outcome.op = "execute_tool"
    /\ outcome.found = Some("Integration Test Course")
    /\ outcome.before = <<"Test Course">>
    /\ last_sources = <<"Integration Test Course">>

C23_WitnessManager ==
    /\ outcome.op = "get_last_sources"
    /\ outcome.ret = <<"Test Course">>

(***************************************************************************)
(* C24: the query endpoint calls create_session exactly when the request   *)
(* has no session_id (absent or empty); the query is forwarded with, and   *)
(* the answer carries, the created id in that case and the supplied id     *)
(* otherwise.                                                              *)
(***************************************************************************)
IsQueryRequest == http_request # None /\ http_request[1].endpoint = "query"

SessionSupplied == TruthyStr(http_request[1].session_id)

Creations == SelectSeq(rag_calls, LAMBDA c : c.op = "create_session")
Forwards == SelectSeq(rag_calls, LAMBDA c : c.op = "query")

\* the id the request is served under
ServedSession ==
    IF SessionSupplied THEN http_request[1].session_id[1]
    ELSE Creations[1].ret[1]

C24_SessionOnDemand ==
    IsQueryRequest =>
        /\ Len(Creations) <= 1
        /\ Len(Forwards) <= 1
        /\ SessionSupplied => Creations = <<>>
        /\ (~SessionSupplied /\ pc \in {"rag_query", "api_responded"})
              => Len(Creations) = 1
        /\ Forwards # <<>>
              => Forwards[1].args = <<http_request[1].query, ServedSession>>
        /\ (http_response # None /\ http_response[1].status_code = 200)
              => /\ Len(Forwards) = 1
                 /\ http_response[1].body.session_id = ServedSession

C24_Witness ==
    /\ IsQueryRequest
    /\ http_request[1].session_id = Some("")
    /\ Len(Creations) = 1
    /\ http_response # None
    /\ http_response[1].status_code = 200
    /\ http_response[1].body.session_id = "test_session_124"

C24_WitnessSupplied ==
    /\ IsQueryRequest
    /\ http_request[1].session_id = Some("existing_session")
    /\ Creations = <<>>
    /\ http_response # None
    /\ http_response[1].status_code = 200
    /\ http_response[1].body.session_id = "existing_session"

(***************************************************************************)
(* C25: when a call of the RAG system or the session manager raises, the   *)
(* endpoint answers with status 500 and the exception's message as         *)
(* detail: the handler has then answered with nothing else, and an answer  *)
(* of status 200 follows only calls that returned.                         *)
(***************************************************************************)
C25_ErrorsBecome500 ==
    /\ \A k \in 1..Len(rag_calls) :
          rag_calls[k].raised # None =>
              /\ pc = "api_responded"
              /\ k = Len(rag_calls)
              /\ http_response
                    = Some([status_code |-> 500,
                            detail |-> rag_calls[k].raised[1]])
    /\ (http_response # None /\ http_response[1].status_code = 200) =>
          \A k \in 1..Len(rag_calls) : rag_calls[k].raised = None
    /\ pc = "api_responded" => http_response # None

C25_Witness ==
    /\ pc = "api_responded"
    /\ http_request[1].endpoint = "clear_session"
    /\ Len(rag_calls) = 1
    /\ rag_calls[1].raised = Some("Session error")
    /\ http_response = Some([status_code |-> 500, detail |-> "Session error"])

C25_WitnessQuery ==
    /\ pc = "api_responded"
    /\ http_request[1].endpoint = "query"
    /\ Len(rag_calls) = 2
    /\ rag_calls[2].raised = Some("RAG system error")
    /\ http_response[1].status_code = 500

(***************************************************************************)
(* C31: a tool is executed only for an in-loop response with stop reason   *)
(* tool_use when a tool manager was supplied, whatever the tool list:      *)
(* without a manager nothing is executed and a tool request ends the query *)
(* after its one call; with a manager every tool-call block of a tool      *)
(* request is executed, also when no tool list was passed.                 *)
(***************************************************************************)
C31_ExecutedOnlyOnRequest ==
    \A j \in 1..Len(executions) :
        LET n == executions[j].after IN
        /\ tool_manager # None
        /\ n \in 1..Len(responses)
        /\ InLoop(n)
        /\ IsToolRequest(responses[n])

C31_NoManager ==
    tool_manager = None =>
        /\ executions = <<>>
        /\ tool_rounds = 0
        /\ Len(requests) <= 1
        /\ (responses # <<>> /\ pc # "dispatch") =>
              /\ pc = "done"
              /\ result = Some(_extract_text_response(responses[1]))

C31_WithManager ==
    tool_manager # None =>
        \A n \in 1..Len(responses) :
            /\ (InLoop(n) /\ IsToolRequest(responses[n]) /\ pc # "dispatch")
                  => tool_rounds >= n
            /\ (InLoop(n) /\ IsToolRequest(responses[n]) /\ RoundAppended(n))
                  => Len(ExecsOfRound(n))
                        = Len(ToolBlocks(responses[n].content))

C31_ToolListIrrelevant ==
    /\ C31_ExecutedOnlyOnRequest
    /\ C31_NoManager
    /\ C31_WithManager

C31_Witness ==
    /\ tools = None
    /\ tool_manager # None
    /\ pc = "done"
    /\ Len(executions) = 2
    /\ executions[1].after = 1
    /\ executions[2].after = 2

C31_WitnessNoManager ==
    /\ TruthyList(tools)
    /\ tool_manager = None
    /\ pc = "done"
    /\ Len(requests) = 1
    /\ IsToolRequest(responses[1])
    /\ HasToolBlock(responses[1])
    /\ executions = <<>>

(***************************************************************************)
(* C32: across the calls of one query every request component but the     *)
(* message history is the same: system instruction, model, temperature,    *)
(* max_tokens, and the tool list with its tool_choice.                     *)
(***************************************************************************)
\* a request without its message history
Frame(req) ==
    [k \in DOMAIN req.params \ {"messages"} |-> req.params[k]]

C32_OnlyHistoryChanges ==
    \A i, j \in 1..Len(requests) :
        Frame(requests[i]) = Frame(requests[j])

(***************************************************************************)
(* C32, as the code has it: system instruction, model, temperature 0 and   *)
(* max_tokens 800 are the same in every call; the in-loop calls all carry  *)
(* the tool list passed (with tool_choice auto) or all carry none; a call  *)
(* made by _final_call_without_tools has neither key; the message history  *)
(* of a call is a prefix of the history of every later call and of the     *)
(* current one.                                                            *)
(***************************************************************************)
IsPrefix(a, b) == Len(a) <= Len(b) /\ a = SubSeq(b, 1, Len(a))

C32_FrameButTools ==
    \A i \in 1..Len(requests) :
        LET p == requests[i].params IN
        /\ {"model", "temperature", "max_tokens", "messages", "system"}
              \subseteq DOMAIN p
        /\ p.system = system_content
        /\ p.model = base_params.model
        /\ p.temperature = base_params.temperature
        /\ p.max_tokens = base_params.max_tokens
        /\ DOMAIN p \subseteq {"model", "temperature", "max_tokens",
                               "messages", "system", "tools", "tool_choice"}
        /\ IsFinal(i) => (~HasTools(requests[i]) /\ ~HasToolChoice(requests[i]))
        /\ InLoop(i) =>
              \A j \in 1..Len(requests) :
                  InLoop(j) => Frame(requests[i]) = Frame(requests[j])
        /\ (InLoop(i) /\ HasTools(requests[i])) => p.tools = tools[1]

C32_HistoryGrows ==
    \A i \in 1..Len(requests) :
        /\ IsPrefix(requests[i].params.messages, messages)
        /\ \A j \in i..Len(requests) :
              IsPrefix(requests[i].params.messages,
                       requests[j].params.messages)

C32_HistoryStep == IsPrefix(messages, messages')

C32_StableRequestFrame ==
    /\ [](C32_FrameButTools /\ C32_HistoryGrows)
    /\ [][C32_HistoryStep]_vars

C32_Witness ==
    /\ pc = "done"
    /\ TruthyList(tools)
    /\ HistoryGiven
    /\ Len(requests) = 3
    /\ InLoop(1) /\ InLoop(2) /\ IsFinal(3)
    /\ HasTools(requests[1]) /\ HasTools(requests[2])
    /\ ~HasTools(requests[3])
    /\ Len(requests[3].params.messages) = 5
====
